---- MODULE Spec2Model ----
(***************************************************************************)
(* Model of the scaffold orchestration pipeline of nextellar               *)
(* (src/lib/scaffold.ts): template-root resolution, target materialization, *)
(* contracts feature merge, token substitution and install delegation.     *)
(*                                                                         *)
(* Strings are sequences of one-character strings, so that includes,       *)
(* replaceAll and the JSON conversions are computed character by           *)
(* character.  An optional field of the request is a sequence of length 0  *)
(* (undefined) or 1 (the value).                                           *)
(***************************************************************************)
EXTENDS Integers, Sequences, FiniteSets, TLC

VARIABLES options, templates, target, pc, templateRoot, probes, error,
          console, installCalls, result, calls, snap

vars == <<options, templates, target, pc, templateRoot, probes, error,
          console, installCalls, result, calls, snap>>

(***************************************************************************)
(* Optional values and JavaScript truthiness                               *)
(***************************************************************************)
Undefined == <<>>

Some(v) == <<v>>

IsSet(opt) == Len(opt) = 1

\* `x || d` for an optional string: undefined and "" are falsy
OrString(opt, d) == IF IsSet(opt) /\ opt[1] # <<>> THEN opt[1] ELSE d

\* variant: any value that was passed counts as true
TruthyWhenSet(opt) == IsSet(opt)

\* truthiness of an optional boolean
Truthy(opt) == IsSet(opt) /\ opt[1] = TRUE

(***************************************************************************)
(* String primitives                                                       *)
(***************************************************************************)
\* String.prototype.indexOf with a 1-based start: the first position at or
\* after `from` where search occurs; 0 when there is none
IndexOf(str, search, from) ==
  LET hits == {i \in from..(Len(str) - Len(search) + 1) :
                 SubSeq(str, i, i + Len(search) - 1) = search}
  IN IF hits = {} THEN 0 ELSE CHOOSE i \in hits : \A j \in hits : i <= j

Includes(str, search) == IndexOf(str, search, 1) # 0

RECURSIVE GetSubstitution(_, _, _, _, _)
\* The replacement-template expansion replaceAll applies to a string
\* replacement: $$ is a dollar sign, $& the match, $` the text before the
\* match, $' the text after it; any other $ is literal (no captures).
GetSubstitution(matched, str, position, replacement, i) ==
  IF i > Len(replacement) THEN <<>>
  ELSE IF replacement[i] = "$" /\ i < Len(replacement)
    THEN LET c == replacement[i + 1] IN
         IF c = "$"
           THEN <<"$">> \o GetSubstitution(matched, str, position, replacement, i + 2)
         ELSE IF c = "&"
           THEN matched \o GetSubstitution(matched, str, position, replacement, i + 2)
         ELSE IF c = "`"
           THEN SubSeq(str, 1, position - 1)
                \o GetSubstitution(matched, str, position, replacement, i + 2)
         ELSE IF c = "'"
           THEN SubSeq(str, position + Len(matched), Len(str))
                \o GetSubstitution(matched, str, position, replacement, i + 2)
         ELSE <<"$">> \o GetSubstitution(matched, str, position, replacement, i + 1)
    ELSE <<replacement[i]>>
         \o GetSubstitution(matched, str, position, replacement, i + 1)

RECURSIVE ReplaceFrom(_, _, _, _)
ReplaceFrom(str, search, replacement, from) ==
  LET i == IndexOf(str, search, from) IN
  IF i = 0 THEN SubSeq(str, from, Len(str))
  ELSE SubSeq(str, from, i - 1)
       \o GetSubstitution(search, str, i, replacement, 1)
       \o ReplaceFrom(str, search, replacement, i + Len(search))

\* String.prototype.replaceAll(search, replacement) for a non-empty search
ReplaceAll(str, search, replacement) == ReplaceFrom(str, search, replacement, 1)

RECURSIVE Join(_, _)
Join(strs, sep) ==
  IF strs = <<>> THEN <<>>
  ELSE IF Len(strs) = 1 THEN strs[1]
  ELSE strs[1] \o sep \o Join(Tail(strs), sep)

(***************************************************************************)
(* JSON text                                                               *)
(***************************************************************************)
RECURSIVE JsonEscape(_)
JsonEscape(s) ==
  IF s = <<>> THEN <<>>
  ELSE (IF Head(s) = "\"" THEN <<"\\","\"">>
        ELSE IF Head(s) = "\\" THEN <<"\\","\\">>
        ELSE IF Head(s) = "\n" THEN <<"\\","n">>
        ELSE <<Head(s)>>) \o JsonEscape(Tail(s))

JsonQuote(s) == <<"\"">> \o JsonEscape(s) \o <<"\"">>

\* JSON.stringify of an array of strings
JsonStringifyArray(arr) ==
  <<"[">> \o Join([i \in 1..Len(arr) |-> JsonQuote(arr[i])], <<",">>) \o <<"]">>

\* A JSON value of a manifest is a string or an object of strings; an
\* object is the sequence of its entries in insertion order.
JStr(s) == [t |-> "str", s |-> s, o |-> <<>>]

JObj(entries) == [t |-> "obj", s |-> <<>>, o |-> entries]

Entry(k, v) == [key |-> k, val |-> v]

\* JSON.stringify(value): no white space
StringifyInner(v) ==
  IF v.t = "str" THEN JsonQuote(v.s)
  ELSE <<"{">> \o Join([i \in 1..Len(v.o) |->
                       JsonQuote(v.o[i].key) \o <<":">> \o JsonQuote(v.o[i].val.s)],
                    <<",">>) \o <<"}">>

JsonStringify(obj) ==
  <<"{">> \o Join([i \in 1..Len(obj) |->
                  JsonQuote(obj[i].key) \o <<":">> \o StringifyInner(obj[i].val)],
               <<",">>) \o <<"}">>

\* JSON.stringify(value, null, 2): two-space indentation
StringifyInnerSpaces(v) ==
  IF v.t = "str" THEN JsonQuote(v.s)
  ELSE IF v.o = <<>> THEN <<"{","}">>
  ELSE <<"{","\n">>
       \o Join([i \in 1..Len(v.o) |->
                  <<" "," "," "," ">> \o JsonQuote(v.o[i].key) \o <<":"," ">> \o JsonQuote(v.o[i].val.s)],
               <<",","\n">>)
       \o <<"\n"," "," ","}">>

JsonStringifySpaces(obj) ==
  IF obj = <<>> THEN <<"{","}">>
  ELSE <<"{","\n">>
       \o Join([i \in 1..Len(obj) |->
                  <<" "," ">> \o JsonQuote(obj[i].key) \o <<":"," ">>
                  \o StringifyInnerSpaces(obj[i].val)],
               <<",","\n">>)
       \o <<"\n","}">>

(***************************************************************************)
(* Directory trees                                                         *)
(*                                                                         *)
(* A tree is a function from relative paths (sequences of entry names) to  *)
(* nodes; <<>> is the directory itself; a directory that does not exist is *)
(* the tree with the empty domain.                                         *)
(***************************************************************************)
Dir == [kind |-> "dir", data |-> <<>>]

File(d) == [kind |-> "file", data |-> d]

NoTree == [p \in {} |-> Dir]

\* fs.pathExists / fs.existsSync
PathExists(tree, p) == p \in DOMAIN tree

Without(tree, p) == [q \in DOMAIN tree \ {p} |-> tree[q]]

WriteFile(tree, p, d) == [q \in DOMAIN tree \cup {p} |-> IF q = p THEN File(d) ELSE tree[q]]

\* path.basename of a relative path below the copied directory
Basename(p) == p[Len(p)]

(***************************************************************************)
(* Manifests used by the templates                                         *)
(***************************************************************************)
ManifestDefault ==
  << Entry(<<"n","a","m","e">>, JStr(<<"{","{","A","P","P","_","N","A","M","E","}","}">>)),
     Entry(<<"s","c","r","i","p","t","s">>, JObj(<<Entry(<<"d","e","v">>, JStr(<<"n","e","x","t"," ","d","e","v">>))>>)),
     Entry(<<"v","e","r","s","i","o","n">>, JStr(<<"0",".","1",".","0">>)) >>

ManifestMinimal == << Entry(<<"n","a","m","e">>, JStr(<<"{","{","A","P","P","_","N","A","M","E","}","}">>)) >>

ManifestJs ==
  << Entry(<<"n","a","m","e">>, JStr(<<"{","{","A","P","P","_","N","A","M","E","}","}">>)),
     Entry(<<"s","c","r","i","p","t","s">>, JObj(<<Entry(<<"c","o","n","t","r","a","c","t","s",":","b","u","i","l","d">>, JStr(<<"m","a","k","e">>)),
                              Entry(<<"l","i","n","t">>, JStr(<<"e","s","l","i","n","t">>))>>)) >>

BuildScript == <<"c","d"," ","c","o","n","t","r","a","c","t","s"," ","&","&"," ","s","t","e","l","l","a","r"," ","c","o","n","t","r","a","c","t"," ","b","u","i","l","d">>

TestScript == <<"c","d"," ","c","o","n","t","r","a","c","t","s"," ","&","&"," ","c","a","r","g","o"," ","t","e","s","t">>

HasKey(entries, k) == \E i \in 1..Len(entries) : entries[i].key = k

Get(entries, k) == entries[CHOOSE i \in 1..Len(entries) : entries[i].key = k].val

\* obj[k] = v: an existing key keeps its position, a new key goes last
SetEntry(entries, k, v) ==
  IF HasKey(entries, k)
    THEN [i \in 1..Len(entries) |->
            IF entries[i].key = k THEN Entry(k, v) ELSE entries[i]]
    ELSE Append(entries, Entry(k, v))

\* variant: the scripts section is replaced by one holding the two entries
AddContractScriptsFresh(pkgJson) ==
  SetEntry(pkgJson, <<"s","c","r","i","p","t","s">>,
           JObj(<<Entry(<<"c","o","n","t","r","a","c","t","s",":","b","u","i","l","d">>, JStr(BuildScript)),
                  Entry(<<"c","o","n","t","r","a","c","t","s",":","t","e","s","t">>, JStr(TestScript))>>))

\* lines 85-87: scripts defaulted to {} when falsy, then the two entries set
AddContractScripts(pkgJson) ==
  LET scripts == IF HasKey(pkgJson, <<"s","c","r","i","p","t","s">>)
                    /\ Get(pkgJson, <<"s","c","r","i","p","t","s">>) # JStr(<<>>)
                   THEN Get(pkgJson, <<"s","c","r","i","p","t","s">>)
                   ELSE JObj(<<>>)
      withBuild == SetEntry(scripts.o, <<"c","o","n","t","r","a","c","t","s",":","b","u","i","l","d">>, JStr(BuildScript))
      withTest == SetEntry(withBuild, <<"c","o","n","t","r","a","c","t","s",":","t","e","s","t">>, JStr(TestScript))
  IN SetEntry(pkgJson, <<"s","c","r","i","p","t","s">>, JObj(withTest))

\* assigning a property of a primitive string throws in an ES module
ScriptsIsString(pkgJson) ==
  HasKey(pkgJson, <<"s","c","r","i","p","t","s">>) /\ Get(pkgJson, <<"s","c","r","i","p","t","s">>).t = "str"
  /\ Get(pkgJson, <<"s","c","r","i","p","t","s">>).s # <<>>

KnownManifests ==
  LET base == {ManifestDefault, ManifestMinimal, ManifestJs}
  IN base \cup {AddContractScripts(m) : m \in base}

\* fs.writeJson(file, obj, {spaces: 2}): indented text and a final newline
WriteJsonText(obj) == JsonStringifySpaces(obj) \o <<"\n">>

JsonTexts(obj) == {JsonStringify(obj), JsonStringifySpaces(obj), WriteJsonText(obj)}

\* fs.readJson: the manifest whose JSON text this is; not ok when the text
\* is not JSON
ReadJson(text) ==
  LET hits == {m \in KnownManifests : text \in JsonTexts(m)} IN
  IF hits # {}
    THEN [ok |-> TRUE, json |-> CHOOSE m \in hits : TRUE]
    ELSE [ok |-> FALSE, json |-> <<>>]

(***************************************************************************)
(* Template trees.  The copy held by candidate root r carries r in its     *)
(* readme, so that copies from different roots differ.                     *)
(***************************************************************************)
NumRoots == 5

Roots == 1..NumRoots

RootDigit(r) == <<<<"1">>, <<"2">>, <<"3">>, <<"4">>, <<"5">>>>[r]

DefaultTree(r) ==
     (<<>> :> Dir)
  @@ (<<<<"p","a","c","k","a","g","e",".","j","s","o","n">>>> :> File(WriteJsonText(ManifestDefault)))
  @@ (<<<<"R","E","A","D","M","E",".","m","d">>>> :> File(<<"#"," ","{","{","A","P","P","_","N","A","M","E","}","}"," ","o","n"," ","{","{","N","E","T","W","O","R","K","}","}"," ">> \o RootDigit(r)))
  @@ (<<<<".","e","n","v",".","e","x","a","m","p","l","e">>>> :> File(<<"H","=","{","{","H","O","R","I","Z","O","N","_","U","R","L","}","}","\n","S","=","{","{","S","O","R","O","B","A","N","_","U","R","L","}","}","\n">>))
  @@ (<<<<"s","r","c">>>> :> Dir)
  @@ (<<<<"s","r","c">>, <<"c","o","n","t","e","x","t","s">>>> :> Dir)
  @@ (<<<<"s","r","c">>, <<"c","o","n","t","e","x","t","s">>, <<"W","a","l","l","e","t","P","r","o","v","i","d","e","r",".","t","s","x">>>> :> File(<<"w","=","{","{","W","A","L","L","E","T","S","}","}",";","{","{","W","A","L","L","E","T","S","}","}">>))
  @@ (<<<<"s","r","c">>, <<"p","a","g","e",".","t","s","x">>>> :> File(<<"<","h","1",">","{","{","A","P","P","_","N","A","M","E","}","}","<","/","h","1",">">>))
  @@ (<<<<"s","r","c">>, <<"l","i","b">>>> :> Dir)
  @@ (<<<<"s","r","c">>, <<"l","i","b">>, <<"s","t","e","l","l","a","r","-","w","a","l","l","e","t","-","k","i","t",".","t","s">>>> :> File(<<"c","o","n","s","t"," ","r","e"," ","="," ","/","{","{"," ","$","&"," ","}","}","/",";">>))
  @@ (<<<<".","g","i","t">>>> :> Dir)
  @@ (<<<<".","g","i","t">>, <<"H","E","A","D">>>> :> File(<<"r","e","f">>))
  @@ (<<<<"s","r","c">>, <<"n","o","d","e","_","m","o","d","u","l","e","s">>>> :> Dir)
  @@ (<<<<"s","r","c">>, <<"n","o","d","e","_","m","o","d","u","l","e","s">>, <<"m",".","j","s">>>> :> File(<<"m">>))
  @@ (<<<<"s","r","c">>, <<"n","o","d","e","_","m","o","d","u","l","e","s">>, <<".","g","i","t">>>> :> File(<<"g">>))

MinimalTree(r) ==
     (<<>> :> Dir)
  @@ (<<<<"p","a","c","k","a","g","e",".","j","s","o","n">>>> :> File(JsonStringify(ManifestMinimal)))
  @@ (<<<<"R","E","A","D","M","E",".","m","d">>>> :> File(<<"{","{","A","P","P","_","N","A","M","E","}","}">> \o RootDigit(r)))
  @@ (<<<<"n","o","d","e","_","m","o","d","u","l","e","s">>>> :> Dir)
  @@ (<<<<"n","o","d","e","_","m","o","d","u","l","e","s">>, <<"R","E","A","D","M","E",".","m","d">>>> :> File(<<"d","e","p">>))

JsTree(r) ==
     (<<>> :> Dir)
  @@ (<<<<"p","a","c","k","a","g","e",".","j","s","o","n">>>> :> File(WriteJsonText(ManifestJs)))
  @@ (<<<<".","e","n","v",".","e","x","a","m","p","l","e">>>> :> File(<<"N","=","{","{","N","E","T","W","O","R","K","}","}">> \o RootDigit(r)))
  @@ (<<<<"s","r","c">>>> :> Dir)
  @@ (<<<<"s","r","c">>, <<"c","o","n","t","e","x","t","s">>>> :> Dir)
  @@ (<<<<"s","r","c">>, <<"c","o","n","t","e","x","t","s">>, <<"W","a","l","l","e","t","P","r","o","v","i","d","e","r",".","j","s","x">>>> :> File(<<"{","{","W","A","L","L","E","T","S","}","}">>))
  @@ (<<<<".","g","i","t">>>> :> File(<<"g","i","t","d","i","r",":"," ","x">>))

\* a template whose manifest is not JSON and whose readme is a directory
OddTree(r) ==
     (<<>> :> Dir)
  @@ (<<<<"p","a","c","k","a","g","e",".","j","s","o","n">>>> :> File(<<"{">>))
  @@ (<<<<"R","E","A","D","M","E",".","m","d">>>> :> Dir)
  @@ (<<<<"R","E","A","D","M","E",".","m","d">>, <<"i","n","d","e","x",".","m","d">>>> :> File(RootDigit(r)))

ContractsTree ==
     (<<>> :> Dir)
  @@ (<<<<"c","o","n","t","r","a","c","t","s">>>> :> Dir)
  @@ (<<<<"c","o","n","t","r","a","c","t","s">>, <<"l","i","b",".","r","s">>>> :> File(<<"f","n"," ","h","e","l","l","o","(",")"," ","{","}">>))
  @@ (<<<<"R","E","A","D","M","E",".","m","d">>>> :> File(<<"c","o","n","t","r","a","c","t","s"," ","f","o","r"," ","{","{","A","P","P","_","N","A","M","E","}","}">>))
  @@ (<<<<".","g","i","t">>>> :> Dir)
  @@ (<<<<".","g","i","t">>, <<"c","o","n","f","i","g">>>> :> File(<<"c">>))

\* a contracts template whose src is a file where the base has a directory
ClashTree ==
     (<<>> :> Dir)
  @@ (<<<<"c","o","n","t","r","a","c","t","s">>>> :> Dir)
  @@ (<<<<"s","r","c">>>> :> File(<<"x">>))

TemplateDirs == {<<"d","e","f","a","u","l","t">>, <<"j","s","-","t","e","m","p","l","a","t","e">>, <<"m","i","n","i","m","a","l">>, <<"c","o","n","t","r","a","c","t","s","-","t","e","m","p","l","a","t","e">>}

RootKinds == {"empty", "full", "plain", "nomanifest", "clash"}

\* what a candidate root of each kind holds under each template directory
RootContent(kind, r) ==
  [d \in TemplateDirs |->
     IF kind = "empty" THEN NoTree
     ELSE IF d = <<"c","o","n","t","r","a","c","t","s","-","t","e","m","p","l","a","t","e">>
       THEN (IF kind = "full" THEN ContractsTree
             ELSE IF kind = "clash" THEN ClashTree
             ELSE NoTree)
     ELSE LET t == IF d = <<"d","e","f","a","u","l","t">> THEN DefaultTree(r)
                   ELSE IF d = <<"j","s","-","t","e","m","p","l","a","t","e">> THEN JsTree(r)
                   ELSE IF kind = "clash" THEN OddTree(r)
                   ELSE MinimalTree(r)
          IN IF kind = "nomanifest" THEN Without(t, <<<<"p","a","c","k","a","g","e",".","j","s","o","n">>>>) ELSE t]

Layout(kinds) == [r \in Roots |-> RootContent(kinds[r], r)]

\* a directory already present at the target path
ExistingTree ==
     (<<>> :> Dir)
  @@ (<<<<"p","a","c","k","a","g","e",".","j","s","o","n">>>> :> File(<<"{","{","A","P","P","_","N","A","M","E","}","}">>))
  @@ (<<<<"n","o","t","e","s",".","t","x","t">>>> :> File(<<"m","i","n","e">>))

(***************************************************************************)
(* fs.copy(src, dest, {filter})                                            *)
(***************************************************************************)
\* variant: the filter forgets the version-control directory
CopyFilterNodeModulesOnly(basename) == basename # <<"n","o","d","e","_","m","o","d","u","l","e","s">>

\* lines 66-69: the filter of the base copy
CopyFilter(basename) == basename # <<".","g","i","t">> /\ basename # <<"n","o","d","e","_","m","o","d","u","l","e","s">>

\* variant: the overlay copy is filtered like the base copy
AcceptsAlwaysFiltered(filtered, basename) == CopyFilter(basename)

\* fs.copy asks the filter, when it was given one (lines 66-69), about every
\* entry; the overlay copy (lines 77-79) passes none
Accepts(filtered, basename) == ~filtered \/ CopyFilter(basename)

\* The entries of src the copy visits: an entry is visited when the filter
\* accepts it and every directory above it.
Visited(src, filtered) ==
  {p \in DOMAIN src : \A i \in 1..Len(p) : Accepts(filtered, p[i])}

\* visited entries that meet an entry of the other kind in dest
Conflicts(src, dest, filtered) ==
  {p \in Visited(src, filtered) : p \in DOMAIN dest /\ dest[p].kind # src[p].kind}

\* variant: a file already in dest is not overwritten
OverlayKeepsExisting(dest, src, paths) ==
  [p \in DOMAIN dest \cup paths |-> IF p \in DOMAIN dest THEN dest[p] ELSE src[p]]

\* dest after the entries `paths` of src were copied: files overwrite,
\* existing directories are kept
Overlay(dest, src, paths) ==
  [p \in DOMAIN dest \cup paths |->
     IF p \in paths /\ (p \notin DOMAIN dest \/ src[p].kind = "file")
       THEN src[p] ELSE dest[p]]

Parent(p) == SubSeq(p, 1, Len(p) - 1)

IsBelow(p, q) == Len(p) >= Len(q) /\ SubSeq(p, 1, Len(q)) = q

\* what may have been copied when the copy stops at a conflict
PartialCopies(src, dest, filtered) ==
  LET bad == Conflicts(src, dest, filtered)
      free == {p \in Visited(src, filtered) : \A q \in bad : ~IsBelow(p, q)}
  IN {Q \in SUBSET free :
        /\ <<>> \in Q
        /\ \A p \in Q : p = <<>> \/ Parent(p) \in Q}

\* The outcomes of fs.copy: it fails when src does not exist or when a
\* directory would replace a file or a file a directory; it does nothing
\* when the filter rejects src itself (srcName is the base name of src).
CopyOutcomes(src, srcName, dest, filtered) ==
  IF DOMAIN src = {} THEN {[ok |-> FALSE, tree |-> dest]}
  ELSE IF <<>> \in Conflicts(src, dest, FALSE) THEN {[ok |-> FALSE, tree |-> dest]}
  ELSE IF ~Accepts(filtered, srcName) THEN {[ok |-> TRUE, tree |-> dest]}
  ELSE IF Conflicts(src, dest, filtered) = {}
    THEN {[ok |-> TRUE, tree |-> Overlay(dest, src, Visited(src, filtered))]}
  ELSE {[ok |-> FALSE, tree |-> Overlay(dest, src, Q)] :
          Q \in PartialCopies(src, dest, filtered)}

(***************************************************************************)
(* The request (ScaffoldOptions, lines 9-21)                               *)
(***************************************************************************)
PackageManagers == {<<"n","p","m">>, <<"y","a","r","n">>, <<"p","n","p","m">>}

DefaultHorizonUrl == <<"h","t","t","p","s",":","/","/","h","o","r","i","z","o","n","-","t","e","s","t","n","e","t",".","s","t","e","l","l","a","r",".","o","r","g">>

DefaultSorobanUrl == <<"h","t","t","p","s",":","/","/","s","o","r","o","b","a","n","-","t","e","s","t","n","e","t",".","s","t","e","l","l","a","r",".","o","r","g">>

DefaultWallets == <<<<"f","r","e","i","g","h","t","e","r">>, <<"a","l","b","e","d","o">>, <<"l","o","b","s","t","r">>>>

AppNames == {<<"d","e","m","o">>, <<"c","a","s","h","$","$","a","p","p">>, <<"x","{","{","N","E","T","W","O","R","K","}","}">>}

TemplateNames == {Undefined, Some(<<>>), Some(<<"d","e","f","a","u","l","t">>), Some(<<"m","i","n","i","m","a","l">>)}

HorizonUrls ==
  {Undefined, Some(<<>>), Some(<<"h","t","t","p","s",":","/","/","h","o","r","i","z","o","n",".","s","t","e","l","l","a","r",".","o","r","g","/","p","u","b","l","i","c">>),
   Some(<<"h","t","t","p","s",":","/","/","P","U","B","L","I","C",".","e","x","a","m","p","l","e",".","o","r","g","/","p","u","b","l","i","-","c">>)}

SorobanUrls == {Undefined, Some(<<"h","t","t","p","s",":","/","/","r","p","c",".","e","x","a","m","p","l","e",".","o","r","g">>)}

WalletLists == {Undefined, Some(<<>>), Some(<<<<"x","b","u","l","l">>, <<"r","a","b","e","t">>>>)}

OptBool == {Undefined, Some(FALSE), Some(TRUE)}

\* requests that vary what the stages before substitution depend on
PipelineRequests ==
  [appName : {<<"d","e","m","o">>}, useTs : BOOLEAN, template : TemplateNames,
   withContracts : OptBool, horizonUrl : {Undefined}, sorobanUrl : {Undefined},
   wallets : {Undefined}, skipInstall : OptBool,
   packageManager : {Undefined, Some(<<"y","a","r","n">>)},
   installTimeout : {Undefined, Some(1000)}]

\* requests that vary what the substitution map depends on
ConfigRequests ==
  [appName : AppNames, useTs : {TRUE}, template : {Undefined},
   withContracts : {Undefined, Some(TRUE)}, horizonUrl : HorizonUrls,
   sorobanUrl : SorobanUrls, wallets : WalletLists, skipInstall : {Some(TRUE)},
   packageManager : {Undefined}, installTimeout : {Undefined}]

\* requests for the search over the candidate roots
LocatorRequests ==
  [appName : {<<"d","e","m","o">>}, useTs : BOOLEAN, template : {Undefined, Some(<<"m","i","n","i","m","a","l">>)},
   withContracts : {Undefined, Some(TRUE)}, horizonUrl : {Undefined},
   sorobanUrl : {Undefined}, wallets : {Undefined}, skipInstall : {Undefined},
   packageManager : {Undefined}, installTimeout : {Undefined}]

PipelineLayouts ==
  {Layout(<<"full", "empty", "empty", "empty", "empty">>),
   Layout(<<"empty", "empty", "plain", "empty", "full">>),
   Layout(<<"empty", "empty", "empty", "empty", "nomanifest">>),
   Layout(<<"empty", "clash", "empty", "empty", "empty">>)}

LocatorLayouts ==
  {Layout(kinds) : kinds \in [Roots -> {"empty", "full", "nomanifest"}]}

(***************************************************************************)
(* Values derived from the request                                         *)
(***************************************************************************)
\* variant: the requested template name is not read
TemplateNameIgnoresRequest(o) == <<"d","e","f","a","u","l","t">>

\* line 37
TemplateName(o) == OrString(o.template, <<"d","e","f","a","u","l","t">>)

\* variant: the requested name is used in both modes
ResolvedTemplateNameRequested(o) == TemplateName(o)

\* line 43
ResolvedTemplateName(o) == IF o.useTs THEN TemplateName(o) ELSE <<"j","s","-","t","e","m","p","l","a","t","e">>

\* variant: the label is derived from a "testnet" marker in the effective URL
ConfigNetworkFromTestnet(o) ==
  << <<<<"{","{","A","P","P","_","N","A","M","E","}","}">>, o.appName>>,
     <<<<"{","{","H","O","R","I","Z","O","N","_","U","R","L","}","}">>, OrString(o.horizonUrl, DefaultHorizonUrl)>>,
     <<<<"{","{","S","O","R","O","B","A","N","_","U","R","L","}","}">>, OrString(o.sorobanUrl, DefaultSorobanUrl)>>,
     <<<<"{","{","N","E","T","W","O","R","K","}","}">>,
       IF Includes(OrString(o.horizonUrl, DefaultHorizonUrl), <<"t","e","s","t","n","e","t">>)
         THEN <<"T","E","S","T","N","E","T">> ELSE <<"P","U","B","L","I","C">>>>,
     <<<<"{","{","W","A","L","L","E","T","S","}","}">>,
       IF IsSet(o.wallets) /\ Len(o.wallets[1]) > 0
         THEN JsonStringifyArray(o.wallets[1])
         ELSE JsonStringifyArray(DefaultWallets)>> >>

\* lines 110-120: the substitution map, in insertion order
Config(o) ==
  << <<<<"{","{","A","P","P","_","N","A","M","E","}","}">>, o.appName>>,
     <<<<"{","{","H","O","R","I","Z","O","N","_","U","R","L","}","}">>, OrString(o.horizonUrl, DefaultHorizonUrl)>>,
     <<<<"{","{","S","O","R","O","B","A","N","_","U","R","L","}","}">>, OrString(o.sorobanUrl, DefaultSorobanUrl)>>,
     <<<<"{","{","N","E","T","W","O","R","K","}","}">>,
       IF IsSet(o.horizonUrl) /\ o.horizonUrl[1] # <<>>
          /\ Includes(o.horizonUrl[1], <<"p","u","b","l","i","c">>)
         THEN <<"P","U","B","L","I","C">> ELSE <<"T","E","S","T","N","E","T">>>>,
     <<<<"{","{","W","A","L","L","E","T","S","}","}">>,
       IF IsSet(o.wallets) /\ Len(o.wallets[1]) > 0
         THEN JsonStringifyArray(o.wallets[1])
         ELSE JsonStringifyArray(DefaultWallets)>> >>

\* variant: the page module is on the list too
FilesToProcessWithPage ==
  << <<<<"p","a","c","k","a","g","e",".","j","s","o","n">>>>,
     <<<<"R","E","A","D","M","E",".","m","d">>>>,
     <<<<"s","r","c">>, <<"p","a","g","e",".","t","s","x">>>>,
     <<<<"s","r","c">>, <<"c","o","n","t","e","x","t","s">>, <<"W","a","l","l","e","t","P","r","o","v","i","d","e","r",".","t","s","x">>>>,
     <<<<"s","r","c">>, <<"c","o","n","t","e","x","t","s">>, <<"W","a","l","l","e","t","P","r","o","v","i","d","e","r",".","j","s","x">>>>,
     <<<<"s","r","c">>, <<"l","i","b">>, <<"s","t","e","l","l","a","r","-","w","a","l","l","e","t","-","k","i","t",".","t","s">>>>,
     <<<<"s","r","c">>, <<"l","i","b">>, <<"s","t","e","l","l","a","r","-","w","a","l","l","e","t","-","k","i","t",".","j","s">>>>,
     <<<<"s","r","c">>, <<"h","o","o","k","s">>, <<"u","s","e","S","o","r","o","b","a","n","C","o","n","t","r","a","c","t",".","t","s">>>>,
     <<<<"s","r","c">>, <<"h","o","o","k","s">>, <<"u","s","e","S","o","r","o","b","a","n","C","o","n","t","r","a","c","t",".","j","s">>>>,
     <<<<".","e","n","v",".","e","x","a","m","p","l","e">>>> >>

\* lines 122-132
FilesToProcess ==
  << <<<<"p","a","c","k","a","g","e",".","j","s","o","n">>>>,
     <<<<"R","E","A","D","M","E",".","m","d">>>>,
     <<<<"s","r","c">>, <<"c","o","n","t","e","x","t","s">>, <<"W","a","l","l","e","t","P","r","o","v","i","d","e","r",".","t","s","x">>>>,
     <<<<"s","r","c">>, <<"c","o","n","t","e","x","t","s">>, <<"W","a","l","l","e","t","P","r","o","v","i","d","e","r",".","j","s","x">>>>,
     <<<<"s","r","c">>, <<"l","i","b">>, <<"s","t","e","l","l","a","r","-","w","a","l","l","e","t","-","k","i","t",".","t","s">>>>,
     <<<<"s","r","c">>, <<"l","i","b">>, <<"s","t","e","l","l","a","r","-","w","a","l","l","e","t","-","k","i","t",".","j","s">>>>,
     <<<<"s","r","c">>, <<"h","o","o","k","s">>, <<"u","s","e","S","o","r","o","b","a","n","C","o","n","t","r","a","c","t",".","t","s">>>>,
     <<<<"s","r","c">>, <<"h","o","o","k","s">>, <<"u","s","e","S","o","r","o","b","a","n","C","o","n","t","r","a","c","t",".","j","s">>>>,
     <<<<".","e","n","v",".","e","x","a","m","p","l","e">>>> >>

EnvBlock ==
  <<"\n","#"," ","S","o","r","o","b","a","n"," ","S","m","a","r","t"," ","C","o","n","t","r","a","c","t","s","\n","N","E","X","T","_","P","U","B","L","I","C","_","H","E","L","L","O","_","W","O","R","L","D","_","C","O","N","T","R","A","C","T","_","I","D","=","C","_","R","E","P","L","A","C","E","_","W","I","T","H","_","Y","O","U","R","_","C","O","N","T","R","A","C","T","_","I","D","\n">>

\* the directory {root}/{name} of the layout
TemplateDirAt(layout, r, name) ==
  IF name \in DOMAIN layout[r] THEN layout[r][name] ELSE NoTree

(***************************************************************************)
(* Errors                                                                  *)
(***************************************************************************)
NoError == [kind |-> "none", message |-> <<>>]

\* lines 39-41
UnsupportedTemplateError(o) ==
  [kind |-> "UnsupportedTemplate",
   message |-> <<"T","e","m","p","l","a","t","e"," ","\"">> \o TemplateName(o)
               \o <<"\""," ","i","s"," ","n","o","t"," ","a","v","a","i","l","a","b","l","e"," ","f","o","r"," ","J","a","v","a","S","c","r","i","p","t"," ","y","e","t","."," ","P","l","e","a","s","e"," ","u","s","e"," ","t","h","e"," ","d","e","f","a","u","l","t"," ","t","e","m","p","l","a","t","e"," ","w","i","t","h"," ","-","-","j","a","v","a","s","c","r","i","p","t",".">>]

\* line 62
DirectoryExistsError(o) ==
  [kind |-> "DirectoryExists",
   message |-> <<"D","i","r","e","c","t","o","r","y"," ","\"">> \o o.appName \o <<"\""," ","a","l","r","e","a","d","y"," ","e","x","i","s","t","s",".">>]

\* lines 150-152
InstallFailureError(o, res) ==
  [kind |-> "InstallFailure",
   message |-> <<"D","e","p","e","n","d","e","n","c","y"," ","i","n","s","t","a","l","l","a","t","i","o","n"," ","f","a","i","l","e","d","."," ","P","l","e","a","s","e"," ","r","u","n"," ","\"">>
               \o res.packageManager \o <<" ","i","n","s","t","a","l","l","\""," ","m","a","n","u","a","l","l","y"," ","i","n"," ","\"">>
               \o o.appName \o <<"\"",".">>]

\* an error raised inside fs-extra or the runtime, propagated unchanged
FsError(stage) == [kind |-> stage, message |-> <<"f","i","l","e","s","y","s","t","e","m"," ","e","r","r","o","r">>]

(***************************************************************************)
(* Stage bodies                                                            *)
(***************************************************************************)
RECURSIVE FindRoot(_, _, _)
\* lines 54-55: Array.prototype.find over the candidates from index r;
\* 0 when no candidate has the manifest
FindRoot(layout, name, r) ==
  IF r > NumRoots THEN 0
  ELSE IF PathExists(TemplateDirAt(layout, r, name), <<<<"p","a","c","k","a","g","e",".","j","s","o","n">>>>) THEN r
  ELSE FindRoot(layout, name, r + 1)

\* variant: the fallback is the first candidate
ChooseRootFallbackFirst(layout, name) ==
  IF FindRoot(layout, name, 1) # 0 THEN FindRoot(layout, name, 1) ELSE 1

\* lines 53-56
ChooseRoot(layout, name) ==
  IF FindRoot(layout, name, 1) # 0 THEN FindRoot(layout, name, 1) ELSE NumRoots

\* the candidates whose manifest path was tested by find
Probed(layout, name) ==
  IF FindRoot(layout, name, 1) # 0
    THEN [i \in 1..FindRoot(layout, name, 1) |-> i]
    ELSE [i \in 1..NumRoots |-> i]

\* lines 82-89: the manifest step of the contracts feature
MergeManifest(tree) ==
  LET p == <<<<"p","a","c","k","a","g","e",".","j","s","o","n">>>> IN
  IF ~PathExists(tree, p) THEN [ok |-> TRUE, tree |-> tree]
  ELSE IF tree[p].kind = "dir" THEN [ok |-> FALSE, tree |-> tree]
  ELSE LET read == ReadJson(tree[p].data) IN
       IF ~read.ok \/ ScriptsIsString(read.json) THEN [ok |-> FALSE, tree |-> tree]
       ELSE [ok |-> TRUE,
             tree |-> WriteFile(tree, p, WriteJsonText(AddContractScripts(read.json)))]

\* lines 91-95: fs.appendFile creates the file when it does not exist
AppendEnvExample(tree) ==
  LET p == <<<<".","e","n","v",".","e","x","a","m","p","l","e">>>> IN
  IF ~PathExists(tree, <<>>) THEN [ok |-> FALSE, tree |-> tree]
  ELSE IF ~PathExists(tree, p) THEN [ok |-> TRUE, tree |-> WriteFile(tree, p, EnvBlock)]
  ELSE IF tree[p].kind = "dir" THEN [ok |-> FALSE, tree |-> tree]
  ELSE [ok |-> TRUE, tree |-> WriteFile(tree, p, tree[p].data \o EnvBlock)]

\* lines 73-96 after the overlay copy
MergeAfterOverlay(tree) ==
  LET m == MergeManifest(tree) IN
  IF ~m.ok THEN m ELSE AppendEnvExample(m.tree)

\* lines 73-96: the outcomes of the contracts feature merge
MergeOutcomes(o, layout, root, tree) ==
  LET contractsTemplateDir == TemplateDirAt(layout, root, <<"c","o","n","t","r","a","c","t","s","-","t","e","m","p","l","a","t","e">>) IN
  IF ~Truthy(o.withContracts) THEN {[ok |-> TRUE, tree |-> tree]}
  ELSE IF ~PathExists(contractsTemplateDir, <<>>) THEN {MergeAfterOverlay(tree)}
  ELSE {IF c.ok THEN MergeAfterOverlay(c.tree) ELSE c :
          c \in CopyOutcomes(contractsTemplateDir, <<"c","o","n","t","r","a","c","t","s","-","t","e","m","p","l","a","t","e">>, tree, FALSE)}

RECURSIVE ApplyReplacements(_, _, _)
\* lines 104-106
ApplyReplacements(content, replacements, i) ==
  IF i > Len(replacements) THEN content
  ELSE ApplyReplacements(ReplaceAll(content, replacements[i][1], replacements[i][2]),
                         replacements, i + 1)

\* variant: the file is written back with a final newline added
ReplaceInFileAddsNewline(tree, filePath, replacements) ==
  IF tree[filePath].kind = "dir" THEN [ok |-> FALSE, tree |-> tree]
  ELSE [ok |-> TRUE,
        tree |-> WriteFile(tree, filePath,
                           ApplyReplacements(tree[filePath].data, replacements, 1)
                           \o <<"\n">>)]

\* lines 98-108: readFile fails on a directory
ReplaceInFile(tree, filePath, replacements) ==
  IF tree[filePath].kind = "dir" THEN [ok |-> FALSE, tree |-> tree]
  ELSE [ok |-> TRUE,
        tree |-> WriteFile(tree, filePath,
                           ApplyReplacements(tree[filePath].data, replacements, 1))]

RECURSIVE ProcessFiles(_, _, _)
\* lines 134-138
ProcessFiles(tree, replacements, i) ==
  IF i > Len(FilesToProcess) THEN [ok |-> TRUE, tree |-> tree]
  ELSE IF ~PathExists(tree, FilesToProcess[i]) THEN ProcessFiles(tree, replacements, i + 1)
  ELSE LET r == ReplaceInFile(tree, FilesToProcess[i], replacements) IN
       IF ~r.ok THEN r ELSE ProcessFiles(r.tree, replacements, i + 1)

\* variant: the line does not name the application
ConfirmationLineAnonymous(o) == <<"S","c","a","f","f","o","l","d","e","d"," ","f","r","o","m"," ","t","e","m","p","l","a","t","e",".">>

\* line 140, without the leading check mark and spaces
ConfirmationLine(o) == <<"S","c","a","f","f","o","l","d","e","d"," ","\"">> \o o.appName \o <<"\""," ","f","r","o","m"," ","t","e","m","p","l","a","t","e",".">>

\* the results the install delegate may return
InstallResults == [success : BOOLEAN, packageManager : PackageManagers]

\* variant: the timeout is not passed on
InstallArgsWithoutTimeout(o) ==
  [cwd |-> o.appName, skipInstall |-> o.skipInstall,
   packageManager |-> o.packageManager, timeout |-> Undefined]

\* lines 142-147: the argument of runInstall
InstallArgs(o) ==
  [cwd |-> o.appName, skipInstall |-> o.skipInstall,
   packageManager |-> o.packageManager, timeout |-> o.installTimeout]

\* variant: the skip flag is not consulted
InstallFailedIgnoringSkip(o, res) == ~res.success

\* line 149
InstallFailed(o, res) == ~res.success /\ ~Truthy(o.skipInstall)

(***************************************************************************)
(* State machine                                                           *)
(***************************************************************************)
MaxCalls == 2

Stages == <<"Validate", "ResolveTemplate", "CheckTargetAbsence", "CopyTemplate",
            "MergeContracts", "SubstituteTokens", "DelegateInstall", "Report">>

\* what is recorded about the current call: the target when the call
\* started, after the copy and after the merge, the stages entered, the
\* lengths of the console and of the delegate's call log at the start, and
\* the kind of error the previous call ended with
NewSnap(tree, con, inst, prev) ==
  [start |-> tree, copy |-> NoTree, merge |-> NoTree, stages |-> <<>>,
   console0 |-> Len(con), installs0 |-> Len(inst), previous |-> prev]

Entered(stage) == [snap EXCEPT !.stages = Append(@, stage)]

Init ==
  /\ \/ /\ options \in PipelineRequests
        /\ templates \in PipelineLayouts
        /\ target \in {NoTree, ExistingTree}
     \/ /\ options \in ConfigRequests
        /\ templates = Layout(<<"full", "empty", "empty", "empty", "empty">>)
        /\ target = NoTree
     \/ /\ options \in LocatorRequests
        /\ templates \in LocatorLayouts
        /\ target = NoTree
  /\ pc = "Validate"
  /\ templateRoot = 0
  /\ probes = <<>>
  /\ error = NoError
  /\ console = <<>>
  /\ installCalls = <<>>
  /\ result = Undefined
  /\ calls = 1
  /\ snap = NewSnap(target, <<>>, <<>>, "none")

\* variant: the error is recorded and the pipeline goes on
FailKeepsGoing(err) ==
  /\ error' = err
  /\ pc' = IF Len(snap.stages) + 2 <= Len(Stages)
              THEN Stages[Len(snap.stages) + 2] ELSE "failed"

Fail(err) == pc' = "failed" /\ error' = err

\* lines 37-43
Validate ==
  /\ pc = "Validate"
  /\ snap' = Entered("Validate")
  /\ IF ~options.useTs /\ TemplateName(options) # <<"d","e","f","a","u","l","t">>
       THEN Fail(UnsupportedTemplateError(options))
       ELSE pc' = "ResolveTemplate" /\ error' = error
  /\ UNCHANGED <<options, templates, target, templateRoot, probes, console,
                 installCalls, result, calls>>

\* lines 46-57
ResolveTemplate ==
  /\ pc = "ResolveTemplate"
  /\ snap' = Entered("ResolveTemplate")
  /\ templateRoot' = ChooseRoot(templates, ResolvedTemplateName(options))
  /\ probes' = Probed(templates, ResolvedTemplateName(options))
  /\ pc' = "CheckTargetAbsence"
  /\ UNCHANGED <<options, templates, target, error, console, installCalls,
                 result, calls>>

\* variant: the target is not tested before the copy
CheckTargetAbsenceSkipped ==
  /\ pc = "CheckTargetAbsence"
  /\ snap' = Entered("CheckTargetAbsence")
  /\ pc' = "CopyTemplate"
  /\ UNCHANGED <<options, templates, target, templateRoot, probes, error,
                 console, installCalls, result, calls>>

\* lines 59-63
CheckTargetAbsence ==
  /\ pc = "CheckTargetAbsence"
  /\ snap' = Entered("CheckTargetAbsence")
  /\ IF PathExists(target, <<>>)
       THEN Fail(DirectoryExistsError(options))
       ELSE pc' = "CopyTemplate" /\ error' = error
  /\ UNCHANGED <<options, templates, target, templateRoot, probes, console,
                 installCalls, result, calls>>

\* lines 65-71
CopyTemplate ==
  /\ pc = "CopyTemplate"
  /\ \E c \in CopyOutcomes(TemplateDirAt(templates, templateRoot,
                                         ResolvedTemplateName(options)),
                           ResolvedTemplateName(options), target, TRUE) :
       /\ target' = c.tree
       /\ IF c.ok
            THEN /\ pc' = "MergeContracts" /\ error' = error
                 /\ snap' = [Entered("CopyTemplate") EXCEPT !.copy = c.tree]
            ELSE /\ Fail(FsError("CopyFailure"))
                 /\ snap' = Entered("CopyTemplate")
  /\ UNCHANGED <<options, templates, templateRoot, probes, console,
                 installCalls, result, calls>>

\* variant: a failed merge removes the target
MergeContractsWithRollback ==
  /\ pc = "MergeContracts"
  /\ \E m \in MergeOutcomes(options, templates, templateRoot, target) :
       IF m.ok
         THEN /\ target' = m.tree
              /\ pc' = "SubstituteTokens" /\ error' = error
              /\ snap' = [Entered("MergeContracts") EXCEPT !.merge = m.tree]
         ELSE /\ target' = NoTree
              /\ Fail(FsError("MergeFailure"))
              /\ snap' = Entered("MergeContracts")
  /\ UNCHANGED <<options, templates, templateRoot, probes, console,
                 installCalls, result, calls>>

\* lines 73-96
MergeContracts ==
  /\ pc = "MergeContracts"
  /\ \E m \in MergeOutcomes(options, templates, templateRoot, target) :
       /\ target' = m.tree
       /\ IF m.ok
            THEN /\ pc' = "SubstituteTokens" /\ error' = error
                 /\ snap' = [Entered("MergeContracts") EXCEPT !.merge = m.tree]
            ELSE /\ Fail(FsError("MergeFailure"))
                 /\ snap' = Entered("MergeContracts")
  /\ UNCHANGED <<options, templates, templateRoot, probes, console,
                 installCalls, result, calls>>

\* lines 98-140
SubstituteTokens ==
  /\ pc = "SubstituteTokens"
  /\ snap' = Entered("SubstituteTokens")
  /\ LET s == ProcessFiles(target, Config(options), 1) IN
       /\ target' = s.tree
       /\ IF s.ok
            THEN /\ pc' = "DelegateInstall" /\ error' = error
                 /\ console' = Append(console, ConfirmationLine(options))
            ELSE /\ Fail(FsError("SubstituteFailure"))
                 /\ console' = console
  /\ UNCHANGED <<options, templates, templateRoot, probes, installCalls,
                 result, calls>>

\* lines 142-147
DelegateInstall ==
  /\ pc = "DelegateInstall"
  /\ snap' = Entered("DelegateInstall")
  /\ \E res \in InstallResults : result' = Some(res)
  /\ installCalls' = Append(installCalls, InstallArgs(options))
  /\ pc' = "Report"
  /\ UNCHANGED <<options, templates, target, templateRoot, probes, error,
                 console, calls>>

\* lines 149-153
Report ==
  /\ pc = "Report"
  /\ snap' = Entered("Report")
  /\ IF InstallFailed(options, result[1])
       THEN Fail(InstallFailureError(options, result[1]))
       ELSE pc' = "done" /\ error' = error
  /\ UNCHANGED <<options, templates, target, templateRoot, probes, console,
                 installCalls, result, calls>>

\* a further call of scaffold with the same request
Rerun ==
  /\ pc \in {"done", "failed"}
  /\ calls < MaxCalls
  /\ calls' = calls + 1
  /\ pc' = "Validate"
  /\ templateRoot' = 0
  /\ probes' = <<>>
  /\ error' = NoError
  /\ result' = Undefined
  /\ snap' = NewSnap(target, console, installCalls, error.kind)
  /\ UNCHANGED <<options, templates, target, console, installCalls>>

Next ==
  \/ Validate
  \/ ResolveTemplate
  \/ CheckTargetAbsence
  \/ CopyTemplate
  \/ MergeContracts
  \/ SubstituteTokens
  \/ DelegateInstall
  \/ Report
  \/ Rerun

Spec == Init /\ [][Next]_vars

(***************************************************************************)
(* Vocabulary of the properties                                            *)
(***************************************************************************)
\* sub occurs in str
Occurs(sub, str) ==
  \E i \in 1..Len(str) : i + Len(sub) - 1 <= Len(str)
                         /\ SubSeq(str, i, i + Len(sub) - 1) = sub

\* the current call has entered its n-th stage
EnteredCount(n) == Len(snap.stages) >= n

\* the stage named has completed without an error in the current call
CopyDone == EnteredCount(4) /\ error.kind # "CopyFailure"

MergeDone == EnteredCount(5) /\ error.kind \notin {"CopyFailure", "MergeFailure"}

SubstDone ==
  EnteredCount(6) /\ error.kind \notin {"CopyFailure", "MergeFailure", "SubstituteFailure"}

Ended == pc \in {"done", "failed"}

ExcludedNames == {<<".","g","i","t">>, <<"n","o","d","e","_","m","o","d","u","l","e","s">>}

ManifestPath == <<<<"p","a","c","k","a","g","e",".","j","s","o","n">>>>

EnvExamplePath == <<<<".","e","n","v",".","e","x","a","m","p","l","e">>>>

Tokens == {<<"{","{","A","P","P","_","N","A","M","E","}","}">>, <<"{","{","H","O","R","I","Z","O","N","_","U","R","L","}","}">>, <<"{","{","S","O","R","O","B","A","N","_","U","R","L","}","}">>, <<"{","{","N","E","T","W","O","R","K","}","}">>,
           <<"{","{","W","A","L","L","E","T","S","}","}">>}

\* the template directory the current call copies from
SourceDir == TemplateDirAt(templates, templateRoot, ResolvedTemplateName(options))

ContractsDir == TemplateDirAt(templates, templateRoot, <<"c","o","n","t","r","a","c","t","s","-","t","e","m","p","l","a","t","e">>)

\* the request names a template other than the default one
NonDefaultRequested ==
  IsSet(options.template) /\ options.template[1] \notin {<<>>, <<"d","e","f","a","u","l","t">>}

\* C1: a request in untyped mode for a template other than the default
\* fails in validation with the unsupported-template error, which names the
\* template; no candidate root was probed, the target is as it was when the
\* call started (so it was not created), nothing was printed and the install
\* delegate was not called.
C1_UnsupportedTemplateFailsFast ==
  (~options.useTs /\ NonDefaultRequested /\ EnteredCount(1)) =>
     /\ pc = "failed"
     /\ error.kind = "UnsupportedTemplate"
     /\ Occurs(<<"\"">> \o options.template[1] \o <<"\"">>, error.message)
     /\ snap.stages = <<"Validate">>
     /\ probes = <<>>
     /\ templateRoot = 0
     /\ target = snap.start
     /\ installCalls = <<>>
     /\ console = <<>>

\* C1 witness: the unsupported-template failure with the target already there
C1_Witness ==
  /\ pc = "failed" /\ error.kind = "UnsupportedTemplate"
  /\ ~options.useTs /\ options.template = Some(<<"m","i","n","i","m","a","l">>)
  /\ PathExists(snap.start, <<>>)

\* C2: when the target exists at the check, the call fails with the
\* directory-exists error and the target, the console and the delegate's call
\* log are as they were when the call started.
C2_ExistingTargetUntouched ==
  (PathExists(snap.start, <<>>) /\ EnteredCount(3)) =>
     /\ pc = "failed"
     /\ error.kind = "DirectoryExists"
     /\ Occurs(<<"\"">> \o options.appName \o <<"\"">>, error.message)
     /\ snap.stages = <<"Validate", "ResolveTemplate", "CheckTargetAbsence">>
     /\ target = snap.start
     /\ Len(console) = snap.console0
     /\ Len(installCalls) = snap.installs0

\* C2 witness: the first call fails on a directory that was there before,
\* with the contracts flag set and a template that would have been copied
C2_Witness ==
  /\ calls = 1 /\ pc = "failed" /\ error.kind = "DirectoryExists"
  /\ target = ExistingTree
  /\ Truthy(options.withContracts)
  /\ PathExists(SourceDir, ManifestPath)

\* the environment-sample file as the overlay copy left it: the contracts
\* template's when the overlay held one, else the base copy's
EnvAfterOverlay ==
  IF Truthy(options.withContracts) /\ PathExists(ContractsDir, EnvExamplePath)
    THEN ContractsDir[EnvExamplePath].data
    ELSE snap.copy[EnvExamplePath].data

EnvPresentAfterOverlay ==
  \/ PathExists(snap.copy, EnvExamplePath)
  \/ Truthy(options.withContracts) /\ PathExists(ContractsDir, EnvExamplePath)

\* C3: with the contracts flag set, the merge leaves an absent
\* environment-sample file absent, and appends exactly the two-line block to
\* one that exists.
C3_EnvSampleOnlyAppended ==
  (Truthy(options.withContracts) /\ MergeDone) =>
     IF EnvPresentAfterOverlay
       THEN /\ PathExists(snap.merge, EnvExamplePath)
            /\ snap.merge[EnvExamplePath].data = EnvAfterOverlay \o EnvBlock
       ELSE /\ ~PathExists(snap.merge, EnvExamplePath)
            /\ (Ended => ~PathExists(target, EnvExamplePath))

\* the candidates that hold the manifest of the resolved template
Qualifying ==
  {r \in Roots :
     <<<<"p","a","c","k","a","g","e",".","j","s","o","n">>>> \in
       DOMAIN TemplateDirAt(templates, r, ResolvedTemplateName(options))}

\* C4: the resolve step chooses the lowest qualifying candidate, or the last
\* candidate when none qualifies; it raises no error and changes neither
\* the templates nor the target.
C4_FirstQualifyingOrLast ==
  [][pc = "ResolveTemplate" =>
       /\ templateRoot' = IF Qualifying = {} THEN NumRoots
                          ELSE CHOOSE r \in Qualifying : \A q \in Qualifying : r <= q
       /\ pc' = "CheckTargetAbsence"
       /\ error' = NoError
       /\ templates' = templates
       /\ target' = target]_vars

\* C4 witness: resolution chose a candidate after the first one while a
\* later candidate qualifies too
C4_Witness ==
  /\ pc = "CheckTargetAbsence"
  /\ templateRoot = 2
  /\ {2, 4} \subseteq Qualifying
  /\ 1 \notin Qualifying

\* C5: a call ends with the install-failure error exactly when it reached
\* the report stage with a delegate result whose success is false and the
\* skip flag not set; the message names the package manager the delegate
\* returned, and no other, and the application name.
C5_InstallFailureIff ==
  Ended =>
     /\ error.kind = "InstallFailure"
          <=> /\ snap.stages = Stages
              /\ IsSet(result) /\ ~result[1].success
              /\ options.skipInstall # Some(TRUE)
     /\ error.kind = "InstallFailure" =>
          /\ pc = "failed"
          /\ \A pm \in PackageManagers :
               Occurs(<<"\"">> \o pm \o <<" ","i","n","s","t","a","l","l","\"">>, error.message)
                 <=> pm = result[1].packageManager
          /\ Occurs(<<"i","n"," ","\"">> \o options.appName \o <<"\"">>, error.message)
     /\ (options.skipInstall = Some(TRUE) /\ snap.stages = Stages) => pc = "done"

\* C5 witness: the install failure where the delegate used another package
\* manager than the one requested
C5_Witness ==
  /\ pc = "failed" /\ error.kind = "InstallFailure"
  /\ options.packageManager = Some(<<"y","a","r","n">>)
  /\ result[1].packageManager = <<"n","p","m">>

\* a path none of whose components is an excluded name
Clean(p) == \A i \in 1..Len(p) : p[i] \notin ExcludedNames

\* C6: when the copy completes, no entry of the target has the base name
\* .git or node_modules at any depth, and every entry of the template that
\* lies outside the excluded subtrees is in the target as it is in the
\* template.
C6_NoExcludedEntries ==
  CopyDone =>
     /\ \A p \in DOMAIN snap.copy : p = <<>> \/ Basename(p) \notin ExcludedNames
     /\ \A p \in DOMAIN SourceDir :
          Clean(p) => p \in DOMAIN snap.copy /\ snap.copy[p] = SourceDir[p]

\* C6 witness: the copy of a template that holds excluded entries at its
\* top level and two and three levels down
C6_Witness ==
  /\ CopyDone /\ pc = "MergeContracts"
  /\ <<<<".","g","i","t">>>> \in DOMAIN SourceDir
  /\ <<<<"s","r","c">>, <<"n","o","d","e","_","m","o","d","u","l","e","s">>>> \in DOMAIN SourceDir
  /\ <<<<"s","r","c">>, <<"n","o","d","e","_","m","o","d","u","l","e","s">>, <<".","g","i","t">>>> \in DOMAIN SourceDir
  /\ <<<<"s","r","c">>, <<"p","a","g","e",".","t","s","x">>>> \in DOMAIN snap.copy

\* the places where token occurs in content
Occurrences(content, token) ==
  {i \in 1..Len(content) :
     i + Len(token) - 1 <= Len(content)
     /\ SubSeq(content, i, i + Len(token) - 1) = token}

\* the occurrences a left-to-right scan takes: those not overlapped by an
\* earlier taken one
Taken(content, token) ==
  CHOOSE T \in SUBSET Occurrences(content, token) :
    \A i \in Occurrences(content, token) :
      i \in T <=> ~\E j \in T : j < i /\ i < j + Len(token)

RECURSIVE Rebuild(_, _, _, _, _)
Rebuild(content, width, value, from, places) ==
  IF places = {} THEN SubSeq(content, from, Len(content))
  ELSE LET i == CHOOSE m \in places : \A n \in places : m <= n IN
       SubSeq(content, from, i - 1) \o value
       \o Rebuild(content, width, value, i + width, places \ {i})

\* content with every occurrence of token, left to right, replaced by the
\* characters of value
LiteralReplace(content, token, value) ==
  Rebuild(content, Len(token), value, 1, Taken(content, token))

\* the five tokens replaced one after the other by their resolved values
Substituted(content, cfg) ==
  LiteralReplace(
    LiteralReplace(
      LiteralReplace(
        LiteralReplace(
          LiteralReplace(content, cfg[1][1], cfg[1][2]),
          cfg[2][1], cfg[2][2]),
        cfg[3][1], cfg[3][2]),
      cfg[4][1], cfg[4][2]),
    cfg[5][1], cfg[5][2])

Whitelist == {FilesToProcess[i] : i \in 1..Len(FilesToProcess)}

\* C7: after the substitution stage every whitelisted file that existed
\* before it holds its previous content with the occurrences of the five
\* tokens replaced by their resolved values, and a whitelisted path that did
\* not exist still does not exist.
C7_TokensReplacedByValues ==
  SubstDone =>
    \A p \in Whitelist :
      IF PathExists(snap.merge, p)
        THEN /\ PathExists(target, p)
             /\ target[p].data = Substituted(snap.merge[p].data, Config(options))
        ELSE ~PathExists(target, p)

\* C8: after the substitution stage a whitelisted file in which no token
\* occurred is what it was before the stage.
C8_NoTokenNoChange ==
  SubstDone =>
    \A p \in Whitelist :
      (/\ PathExists(snap.merge, p)
       /\ \A tok \in Tokens : ~Occurs(tok, snap.merge[p].data))
      => PathExists(target, p) /\ target[p] = snap.merge[p]

\* C8 witness: substitution has run over a whitelisted file that holds
\* dollar signs and braces but no token, with a value that holds a token
C8_Witness ==
  /\ SubstDone /\ pc = "DelegateInstall"
  /\ options.appName = <<"x","{","{","N","E","T","W","O","R","K","}","}">>
  /\ PathExists(snap.merge, <<<<"s","r","c">>, <<"l","i","b">>, <<"s","t","e","l","l","a","r","-","w","a","l","l","e","t","-","k","i","t",".","t","s">>>>)
  /\ \A tok \in Tokens :
       ~Occurs(tok, snap.merge[<<<<"s","r","c">>, <<"l","i","b">>, <<"s","t","e","l","l","a","r","-","w","a","l","l","e","t","-","k","i","t",".","t","s">>>>].data)

\* the value the substitution map gives a token
ValueOf(cfg, tok) == cfg[CHOOSE i \in 1..Len(cfg) : cfg[i][1] = tok][2]

UrlSupplied == IsSet(options.horizonUrl)

\* C9: the network label is PUBLIC exactly when a horizon URL was supplied
\* and "public" occurs in it, else TESTNET; the horizon URL is the supplied
\* one when it is not empty, else the default test endpoint.
C9_NetworkLabel ==
  LET cfg == Config(options) IN
  /\ ValueOf(cfg, <<"{","{","N","E","T","W","O","R","K","}","}">>) =
       IF UrlSupplied /\ Occurs(<<"p","u","b","l","i","c">>, options.horizonUrl[1])
         THEN <<"P","U","B","L","I","C">> ELSE <<"T","E","S","T","N","E","T">>
  /\ ValueOf(cfg, <<"{","{","H","O","R","I","Z","O","N","_","U","R","L","}","}">>) =
       IF UrlSupplied /\ Len(options.horizonUrl[1]) > 0
         THEN options.horizonUrl[1] ELSE <<"h","t","t","p","s",":","/","/","h","o","r","i","z","o","n","-","t","e","s","t","n","e","t",".","s","t","e","l","l","a","r",".","o","r","g">>
  /\ ~UrlSupplied =>
       /\ ValueOf(cfg, <<"{","{","H","O","R","I","Z","O","N","_","U","R","L","}","}">>) = <<"h","t","t","p","s",":","/","/","h","o","r","i","z","o","n","-","t","e","s","t","n","e","t",".","s","t","e","l","l","a","r",".","o","r","g">>
       /\ ValueOf(cfg, <<"{","{","N","E","T","W","O","R","K","}","}">>) = <<"T","E","S","T","N","E","T">>
  /\ (SubstDone /\ options.appName = <<"d","e","m","o">>
      /\ PathExists(snap.merge, <<<<"R","E","A","D","M","E",".","m","d">>>>)
      /\ Occurs(<<"{","{","N","E","T","W","O","R","K","}","}">>, snap.merge[<<<<"R","E","A","D","M","E",".","m","d">>>>].data))
     => Occurs(IF UrlSupplied /\ Occurs(<<"p","u","b","l","i","c">>, options.horizonUrl[1])
                 THEN <<"P","U","B","L","I","C">> ELSE <<"T","E","S","T","N","E","T">>,
               target[<<<<"R","E","A","D","M","E",".","m","d">>>>].data)

\* C9 witness: substitution has run with a URL in which "public" occurs only
\* in capitals and broken by a hyphen, and the readme carries the label
C9_Witness ==
  /\ SubstDone /\ pc = "DelegateInstall"
  /\ options.horizonUrl = Some(<<"h","t","t","p","s",":","/","/","P","U","B","L","I","C",".","e","x","a","m","p","l","e",".","o","r","g","/","p","u","b","l","i","-","c">>)
  /\ options.appName = <<"d","e","m","o">>
  /\ Occurs(<<"T","E","S","T","N","E","T">>, target[<<<<"R","E","A","D","M","E",".","m","d">>>>].data)

\* the scripts the manifest text declares
ScriptsOf(text) == Get(ReadJson(text).json, <<"s","c","r","i","p","t","s">>).o

\* C10: with the contracts flag set and no contracts template under the
\* resolved root, the merge stage raises no error, the target has the
\* entries of the base copy and no other, and a manifest in the target has
\* the two contract scripts.
C10_MissingContractsTemplate ==
  (/\ EnteredCount(5) /\ error.kind # "CopyFailure"
   /\ Truthy(options.withContracts)
   /\ ~PathExists(ContractsDir, <<>>)) =>
     /\ error.kind # "MergeFailure"
     /\ DOMAIN snap.merge = DOMAIN snap.copy
     /\ PathExists(snap.copy, ManifestPath) =>
          /\ ReadJson(snap.merge[ManifestPath].data).ok
          /\ HasKey(ScriptsOf(snap.merge[ManifestPath].data), <<"c","o","n","t","r","a","c","t","s",":","b","u","i","l","d">>)
          /\ Get(ScriptsOf(snap.merge[ManifestPath].data), <<"c","o","n","t","r","a","c","t","s",":","b","u","i","l","d">>)
               = JStr(<<"c","d"," ","c","o","n","t","r","a","c","t","s"," ","&","&"," ","s","t","e","l","l","a","r"," ","c","o","n","t","r","a","c","t"," ","b","u","i","l","d">>)
          /\ HasKey(ScriptsOf(snap.merge[ManifestPath].data), <<"c","o","n","t","r","a","c","t","s",":","t","e","s","t">>)
          /\ Get(ScriptsOf(snap.merge[ManifestPath].data), <<"c","o","n","t","r","a","c","t","s",":","t","e","s","t">>)
               = JStr(<<"c","d"," ","c","o","n","t","r","a","c","t","s"," ","&","&"," ","c","a","r","g","o"," ","t","e","s","t">>)

\* the manifest as the overlay copy left it
ManifestAfterOverlay ==
  IF PathExists(ContractsDir, ManifestPath)
    THEN ContractsDir[ManifestPath].data
    ELSE snap.copy[ManifestPath].data

ManifestPresentAfterOverlay ==
  PathExists(snap.copy, ManifestPath) \/ PathExists(ContractsDir, ManifestPath)

\* the entries of a JSON object other than those with the keys given
OtherEntries(entries, keys) == SelectSeq(entries, LAMBDA e : e.key \notin keys)

ContractKeys == {<<"c","o","n","t","r","a","c","t","s",":","b","u","i","l","d">>, <<"c","o","n","t","r","a","c","t","s",":","t","e","s","t">>}

ScriptsOrNone(json) ==
  IF HasKey(json, <<"s","c","r","i","p","t","s">>) THEN Get(json, <<"s","c","r","i","p","t","s">>).o ELSE <<>>

\* C11: with the contracts flag set, when the merge stage has completed a
\* manifest in the target has the two contract scripts with their fixed
\* commands, and all its other fields and other scripts are as before;
\* without a manifest none is created.
C11_ManifestScriptsAdded ==
  (pc = "SubstituteTokens" /\ Truthy(options.withContracts)) =>
     IF ManifestPresentAfterOverlay
       THEN LET before == ReadJson(ManifestAfterOverlay).json
                after == ReadJson(snap.merge[ManifestPath].data)
                scripts == Get(after.json, <<"s","c","r","i","p","t","s">>).o
            IN /\ target = snap.merge
               /\ after.ok
               /\ HasKey(after.json, <<"s","c","r","i","p","t","s">>)
               /\ Get(scripts, <<"c","o","n","t","r","a","c","t","s",":","b","u","i","l","d">>)
                    = JStr(<<"c","d"," ","c","o","n","t","r","a","c","t","s"," ","&","&"," ","s","t","e","l","l","a","r"," ","c","o","n","t","r","a","c","t"," ","b","u","i","l","d">>)
               /\ Get(scripts, <<"c","o","n","t","r","a","c","t","s",":","t","e","s","t">>) = JStr(<<"c","d"," ","c","o","n","t","r","a","c","t","s"," ","&","&"," ","c","a","r","g","o"," ","t","e","s","t">>)
               /\ OtherEntries(after.json, {<<"s","c","r","i","p","t","s">>})
                    = OtherEntries(before, {<<"s","c","r","i","p","t","s">>})
               /\ OtherEntries(scripts, ContractKeys)
                    = OtherEntries(ScriptsOrNone(before), ContractKeys)
       ELSE ~PathExists(snap.merge, ManifestPath)

\* C11 witness: the merge has rewritten a manifest that already had a
\* contracts:build script and another script
C11_Witness ==
  /\ MergeDone /\ pc = "SubstituteTokens" /\ Truthy(options.withContracts)
  /\ PathExists(snap.copy, ManifestPath)
  /\ ReadJson(snap.copy[ManifestPath].data).json = ManifestJs
  /\ Get(ScriptsOf(snap.copy[ManifestPath].data), <<"c","o","n","t","r","a","c","t","s",":","b","u","i","l","d">>) = JStr(<<"m","a","k","e">>)

\* the confirmation lines printed by the current call
LinesPrinted == SubSeq(console, snap.console0 + 1, Len(console))

\* C12 as stated: a call that has ended printed one confirmation line if its
\* copy stage succeeded and none otherwise.
C12_LinePerSuccessfulCopy ==
  Ended => Len(LinesPrinted) = IF CopyDone THEN 1 ELSE 0

\* C12 amended: a call has printed exactly one confirmation line, naming the
\* application, once its substitution stage has completed, and none before
\* that or when the copy, the merge or the substitution failed.
C12_LinePerCompletedSubstitution ==
  /\ Len(LinesPrinted) = IF SubstDone THEN 1 ELSE 0
  /\ SubstDone => Occurs(<<"\"">> \o options.appName \o <<"\"">>, LinesPrinted[1])

\* C12 witness: a call printed its line after the substitution and then
\* failed in the install
C12_Witness ==
  /\ pc = "failed" /\ error.kind = "InstallFailure"
  /\ LinesPrinted = <<ConfirmationLine(options)>>

\* the stages entered are an initial part of the fixed order, an error has
\* been raised exactly when the call has failed, and a call that has not
\* ended is at the stage after the last one entered
StagesArePrefix ==
  /\ snap.stages = SubSeq(Stages, 1, Len(snap.stages))
  /\ error.kind # "none" <=> pc = "failed"
  /\ pc \notin {"done", "failed"} => pc = Stages[Len(snap.stages) + 1]
  /\ pc = "done" => snap.stages = Stages

\* within a call every step enters exactly the next stage of the fixed order
\* and is taken only while no error has been raised
StepsEnterNextStage ==
  [][calls' = calls =>
       /\ error.kind = "none"
       /\ pc = Stages[Len(snap.stages) + 1]
       /\ snap'.stages = Append(snap.stages, pc)]_vars

\* C13: the stages of a call are entered in the fixed order, each once and
\* only after the one before it completed without error, and a call that
\* failed enters no further stage.
C13_StagesInOrder == []StagesArePrefix /\ StepsEnterNextStage

\* C13 witness: a call has gone through all eight stages
C13_Witness == pc = "done" /\ snap.stages = Stages /\ Len(Stages) = 8

\* C14: with the contracts flag unset or false the merge stage leaves the
\* target as the copy stage left it.
C14_MergeNoOpWithoutFlag ==
  (~(IsSet(options.withContracts) /\ options.withContracts[1]) /\ MergeDone) =>
     /\ snap.merge = snap.copy
     /\ pc = "SubstituteTokens" => target = snap.copy

\* C14 witness: the merge stage has run with the flag false where a
\* contracts template, a manifest and an environment sample exist
C14_Witness ==
  /\ pc = "SubstituteTokens"
  /\ options.withContracts = Some(FALSE)
  /\ PathExists(ContractsDir, <<>>)
  /\ PathExists(snap.copy, ManifestPath)
  /\ PathExists(snap.copy, EnvExamplePath)

LaterFailures == {"CopyFailure", "MergeFailure", "SubstituteFailure", "InstallFailure"}

\* a call that failed in the copy or later left in the target what it had
\* written: after a merge failure the copied entries, after a substitution
\* failure the merged entries, after an install failure the merged entries;
\* and it entered no stage twice
NothingCleanedUp ==
  (pc = "failed" /\ error.kind \in LaterFailures) =>
     /\ error.kind = "MergeFailure" => DOMAIN snap.copy \subseteq DOMAIN target
     /\ error.kind \in {"SubstituteFailure", "InstallFailure"} =>
          DOMAIN snap.merge = DOMAIN target
     /\ error.kind # "CopyFailure" => PathExists(target, <<>>)
     /\ snap.stages = SubSeq(Stages, 1, Len(snap.stages))

\* C15 as stated: the call after one that failed in the copy or later fails
\* with the directory-exists error.
C15_SecondCallFindsDirectory ==
  /\ NothingCleanedUp
  /\ (calls >= 2 /\ snap.previous \in LaterFailures /\ Ended) =>
       error.kind = "DirectoryExists"

\* C15 amended: nothing is cleaned up, and the call after one that failed in
\* the copy or later fails with the directory-exists error when the failed
\* call had created the target; when the copy failed before creating it the
\* next call passes the existence check and enters the copy stage again.
C15_SecondCallFindsWhatWasWritten ==
  /\ NothingCleanedUp
  /\ (calls >= 2 /\ snap.previous \in LaterFailures /\ Ended) =>
       IF PathExists(snap.start, <<>>)
         THEN error.kind = "DirectoryExists" /\ target = snap.start
         ELSE snap.previous = "CopyFailure" /\ EnteredCount(4)
  /\ (calls >= 2 /\ snap.previous \in LaterFailures \ {"CopyFailure"}) =>
       PathExists(snap.start, <<>>)

\* C15 witness: the call after a merge failure has failed on the directory
\* the failed call left behind
C15_Witness ==
  /\ calls = 2 /\ snap.previous = "MergeFailure"
  /\ pc = "failed" /\ error.kind = "DirectoryExists"
  /\ PathExists(target, <<<<"c","o","n","t","r","a","c","t","s">>>>)

\* the template name the request stands for
ExpectedTemplateName ==
  IF ~options.useTs THEN <<"j","s","-","t","e","m","p","l","a","t","e">>
  ELSE IF IsSet(options.template) /\ Len(options.template[1]) > 0
    THEN options.template[1] ELSE <<"d","e","f","a","u","l","t">>

ExpectedDir == TemplateDirAt(templates, templateRoot, ExpectedTemplateName)

\* C16: the directory probed and copied is js-template in untyped mode and
\* the requested name, or default when none or an empty one was given, in
\* typed mode.
C16_TemplateDirectoryByMode ==
  /\ EnteredCount(2) =>
       /\ ResolvedTemplateName(options) = ExpectedTemplateName
       /\ \A r \in Roots :
            (r < templateRoot) =>
              ~PathExists(TemplateDirAt(templates, r, ExpectedTemplateName), ManifestPath)
       /\ (templateRoot # NumRoots) => PathExists(ExpectedDir, ManifestPath)
  /\ CopyDone =>
       \A p \in DOMAIN ExpectedDir :
         Clean(p) => p \in DOMAIN snap.copy /\ snap.copy[p] = ExpectedDir[p]

\* C16 witness: an untyped request naming the default template has copied
\* the untyped template
C16_Witness ==
  /\ CopyDone /\ ~options.useTs /\ options.template = Some(<<"d","e","f","a","u","l","t">>)
  /\ PathExists(snap.copy, <<<<"s","r","c">>, <<"c","o","n","t","e","x","t","s">>, <<"W","a","l","l","e","t","P","r","o","v","i","d","e","r",".","j","s","x">>>>)
  /\ ~PathExists(snap.copy, <<<<"s","r","c">>, <<"p","a","g","e",".","t","s","x">>>>)

NinePaths ==
  { <<<<"p","a","c","k","a","g","e",".","j","s","o","n">>>>, <<<<"R","E","A","D","M","E",".","m","d">>>>, <<<<".","e","n","v",".","e","x","a","m","p","l","e">>>>,
    <<<<"s","r","c">>, <<"c","o","n","t","e","x","t","s">>, <<"W","a","l","l","e","t","P","r","o","v","i","d","e","r",".","t","s","x">>>>,
    <<<<"s","r","c">>, <<"c","o","n","t","e","x","t","s">>, <<"W","a","l","l","e","t","P","r","o","v","i","d","e","r",".","j","s","x">>>>,
    <<<<"s","r","c">>, <<"l","i","b">>, <<"s","t","e","l","l","a","r","-","w","a","l","l","e","t","-","k","i","t",".","t","s">>>>,
    <<<<"s","r","c">>, <<"l","i","b">>, <<"s","t","e","l","l","a","r","-","w","a","l","l","e","t","-","k","i","t",".","j","s">>>>,
    <<<<"s","r","c">>, <<"h","o","o","k","s">>, <<"u","s","e","S","o","r","o","b","a","n","C","o","n","t","r","a","c","t",".","t","s">>>>,
    <<<<"s","r","c">>, <<"h","o","o","k","s">>, <<"u","s","e","S","o","r","o","b","a","n","C","o","n","t","r","a","c","t",".","j","s">>>> }

\* C17: once the substitution stage has run, the target has the entries it
\* had before the stage and no other, and every entry that is not one of
\* the nine whitelisted paths is as it was before the stage.
C17_OnlyWhitelistRewritten ==
  (MergeDone /\ EnteredCount(6)) =>
     /\ DOMAIN target = DOMAIN snap.merge
     /\ \A p \in DOMAIN target : p \notin NinePaths => target[p] = snap.merge[p]

\* C17 witness: the substitution has completed over a target that holds a
\* token in a file outside the whitelist and in one inside it
C17_Witness ==
  /\ SubstDone /\ pc = "DelegateInstall"
  /\ PathExists(target, <<<<"s","r","c">>, <<"p","a","g","e",".","t","s","x">>>>)
  /\ target[<<<<"s","r","c">>, <<"p","a","g","e",".","t","s","x">>>>].kind = "file"
  /\ PathExists(snap.merge, <<<<"R","E","A","D","M","E",".","m","d">>>>)
  /\ snap.merge[<<<<"R","E","A","D","M","E",".","m","d">>>>].kind = "file"
  /\ Occurs(<<"{","{","A","P","P","_","N","A","M","E","}","}">>, target[<<<<"s","r","c">>, <<"p","a","g","e",".","t","s","x">>>>].data)
  /\ Occurs(<<"{","{","A","P","P","_","N","A","M","E","}","}">>, snap.merge[<<<<"R","E","A","D","M","E",".","m","d">>>>].data)
  /\ ~Occurs(<<"{","{","A","P","P","_","N","A","M","E","}","}">>, target[<<<<"R","E","A","D","M","E",".","m","d">>>>].data)

\* the target as the overlay copy has to leave it: every entry of the
\* contracts template, and the entries of the base copy it does not have
ExpectedOverlay ==
  [p \in DOMAIN snap.copy \cup DOMAIN ContractsDir |->
     IF p \in DOMAIN ContractsDir THEN ContractsDir[p] ELSE snap.copy[p]]

\* C18: with the contracts flag set and a contracts template under the
\* resolved root, the merge stage ends with what the manifest and
\* environment-sample steps make of the overlaid tree, in which every path
\* of the contracts template has the contracts template's content and every
\* other path the base copy's.
C18_OverlayReplacesFiles ==
  (pc = "SubstituteTokens" /\ Truthy(options.withContracts)
   /\ PathExists(ContractsDir, <<>>)) =>
     /\ snap.merge = MergeAfterOverlay(ExpectedOverlay).tree
     /\ \A p \in DOMAIN ExpectedOverlay \ {ManifestPath, EnvExamplePath} :
          snap.merge[p] = ExpectedOverlay[p]

\* C18 witness: the overlay has replaced the readme of the base copy and
\* kept a base file the contracts template does not have
C18_Witness ==
  /\ pc = "SubstituteTokens" /\ Truthy(options.withContracts)
  /\ PathExists(ContractsDir, <<<<"R","E","A","D","M","E",".","m","d">>>>)
  /\ PathExists(snap.copy, <<<<"R","E","A","D","M","E",".","m","d">>>>)
  /\ snap.copy[<<<<"R","E","A","D","M","E",".","m","d">>>>] # ContractsDir[<<<<"R","E","A","D","M","E",".","m","d">>>>]
  /\ snap.merge[<<<<"R","E","A","D","M","E",".","m","d">>>>] = ContractsDir[<<<<"R","E","A","D","M","E",".","m","d">>>>]
  /\ PathExists(snap.merge, <<<<"s","r","c">>, <<"p","a","g","e",".","t","s","x">>>>)

\* the calls of the install delegate made by the current call
InstallsMade == SubSeq(installCalls, snap.installs0 + 1, Len(installCalls))

\* C19: a call has called the install delegate exactly once when it has gone
\* through the stage after a completed substitution, and not at all
\* otherwise; the delegate got the target directory and the skip flag, the
\* package manager and the timeout of the request as they were passed.
C19_DelegateCalledOnce ==
  /\ Len(InstallsMade) = IF EnteredCount(7) THEN 1 ELSE 0
  /\ EnteredCount(7) => SubstDone
  /\ (Ended /\ SubstDone) => Len(InstallsMade) = 1
  /\ Len(InstallsMade) = 1 =>
       /\ InstallsMade[1].cwd = options.appName
       /\ InstallsMade[1].skipInstall = options.skipInstall
       /\ InstallsMade[1].packageManager = options.packageManager
       /\ InstallsMade[1].timeout = options.installTimeout

\* C19 witness: a call with the skip flag, a package manager and a timeout
\* has ended after calling the delegate
C19_Witness ==
  /\ pc = "done" /\ Len(InstallsMade) = 1
  /\ options.skipInstall = Some(TRUE)
  /\ options.packageManager = Some(<<"y","a","r","n">>)
  /\ options.installTimeout = Some(1000)

HasExcluded(tree) == \E p \in DOMAIN tree : p # <<>> /\ Basename(p) \in ExcludedNames

\* C20: the overlay copies every entry of the contracts template, also those
\* named .git or node_modules; so after the merge the target is free of such
\* entries exactly when the flag is unset or the contracts template has none.
C20_OverlayUnfiltered ==
  /\ (MergeDone /\ Truthy(options.withContracts)) =>
       \A p \in DOMAIN ContractsDir : PathExists(snap.merge, p)
  /\ MergeDone =>
       (HasExcluded(snap.merge)
          <=> Truthy(options.withContracts) /\ HasExcluded(ContractsDir))
  /\ pc = "done" =>
       (HasExcluded(target)
          <=> Truthy(options.withContracts) /\ HasExcluded(ContractsDir))

\* C20 witness: a call has ended well with the contracts template's .git in
\* the target while the base template's .git was left out
C20_Witness ==
  /\ pc = "done"
  /\ PathExists(target, <<<<".","g","i","t">>, <<"c","o","n","f","i","g">>>>)
  /\ ~PathExists(target, <<<<".","g","i","t">>, <<"H","E","A","D">>>>)
  /\ PathExists(SourceDir, <<<<".","g","i","t">>, <<"H","E","A","D">>>>)

====
